---- MODULE Spec2Model ----
(***************************************************************************)
(* Model of the Dymo label codec of inventree-dymo-plugin:                 *)
(*   - DymoProtocolBuilder  (dymo.py 51-122)  the command encoder          *)
(*   - DymoLabelBase.dump_line (dymo.py 153-195)  the line codec           *)
(*   - DymoLabel / DymoTape (dymo.py 219-319)  the job builders            *)
(*   - dymo_to_png.py main loop (42-96)  the stream decoder                *)
(*                                                                         *)
(* Bytes are integers 0..255, byte strings are sequences.  Python indices  *)
(* are 0-based; sequences here are 1-based, so all_bytes[i] of the source  *)
(* is all_bytes[i + 1] here, the index variables keep their source value.  *)
(***************************************************************************)
EXTENDS Integers, Sequences, FiniteSets, TLC

VARIABLES
    kind,        \* class of the job object: "label" (DymoLabel), "tape" (DymoTape)
    compressed,  \* DymoLabelBase.compressed
    mode,        \* DymoLabel.mode: "TEXT" or "GRAPHIC"
    pb,          \* the DymoProtocolBuilder of the job: data, dot_tab, bytes_per_line
    labels,      \* history: the bitmaps (lists of byte rows) handed to dump_label
    dumped,      \* history: per dump_label call, the row indices handed to dump_line
    returned,    \* history: per get_data call, the number of bitmaps dumped before it
    lines,       \* history: the rows handed to dump_line directly (line codec runs)
    all_bytes,   \* dymo_to_png.py: the bytes of the file being decoded
    dec,         \* dymo_to_png.py: the decoder's variables and its position
    block,       \* history: how the compressed block of all_bytes was made
    attempts,    \* history: the builder methods called directly, failed calls too
    tx           \* InvenTreeDymoPlugin.send_data: its position, the machine, the socket

vars ==
    <<kind, compressed, mode, pb, labels, dumped, returned, lines, all_bytes, dec,
      block, attempts, tx>>

-----------------------------------------------------------------------------
(* Bounds of the model *)

\* rows of all bitmaps one job receives, taken together
MaxRows == 3
\* calls of get_data on one job
MaxGetData == 1
\* rows handed to the line codec in one line codec run
MaxLines == 3
\* bytes of the long rows (more than 128 pixels) handed to the line codec
MaxLong == 17
\* bytes per line declared in front of a compressed block given to the decoder
MaxDeclared == 6
\* run bytes of a compressed block given to the decoder
MaxBlock == 2
\* direct calls of builder methods on one builder
MaxCalls == 2
\* blank rows in front of the row with set bits of a tall bitmap
MaxBlank == 256
\* tall bitmaps one job receives
MaxTall == 2

-----------------------------------------------------------------------------
(* Generic helpers *)

\* Python None of dot_tab / bytes_per_line (no byte value)
None == -1

Min(S) == CHOOSE x \in S : \A y \in S : x <= y
Max(S) == CHOOSE x \in S : \A y \in S : x >= y

RECURSIVE SumSeq(_)
SumSeq(s) == IF s = <<>> THEN 0 ELSE Head(s) + SumSeq(Tail(s))

RECURSIVE Flatten(_)
Flatten(ss) == IF ss = <<>> THEN <<>> ELSE Head(ss) \o Flatten(Tail(ss))

\* format(a, "08b") / '{0:0b}'.format(a).zfill(8): the 8 binary digits of a byte,
\* most significant first
Bits(a) == [k \in 1..8 |-> (a \div (2 ^ (8 - k))) % 2]

-----------------------------------------------------------------------------
(* DymoProtocolBuilder *)

\* One record per call of a builder method: op the method, arg its integer
\* argument (0 when it has none), val its list argument (<<>> when it has
\* none), out the bytes the call appended to data.
Call(op, arg, val, out) == [op |-> op, arg |-> arg, val |-> val, out |-> out]

\* DymoProtocolBuilder.__init__; calls is the history of method calls, err is
\* set while an exception raised by a builder method propagates.
NewBuilder ==
    [data |-> <<>>, dot_tab |-> None, bytes_per_line |-> None,
     calls |-> <<>>, err |-> FALSE]

\* bytearray(data) accepts only integers in range(0, 256)
IsByteList(bs) == \A k \in 1..Len(bs) : bs[k] \in 0..255

\* raw(): self.data += bytearray(data); bytearray() raises ValueError before
\* anything is appended.
raw(b, op, arg, val, bs) ==
    IF b.err THEN b
    ELSE IF ~IsByteList(bs) THEN [b EXCEPT !.err = TRUE]
    ELSE [b EXCEPT !.data = @ \o bs,
                   !.calls = Append(@, Call(op, arg, val, bs))]

\* a call that appends nothing (memoized)
noop(b, op, arg) ==
    IF b.err THEN b ELSE [b EXCEPT !.calls = Append(@, Call(op, arg, <<>>, <<>>))]

\* set_dot_tab without the comparison of dymo.py 65
set_dot_tab_always(b, tab) ==
    IF b.err THEN b
    ELSE raw([b EXCEPT !.dot_tab = tab], "set_dot_tab", tab, <<>>, <<27, 66, tab>>)

\* set_dot_tab(): the command is appended only when the value changes
set_dot_tab(b, tab) ==
    IF b.err THEN b
    ELSE IF tab # b.dot_tab
         THEN raw([b EXCEPT !.dot_tab = tab], "set_dot_tab", tab, <<>>, <<27, 66, tab>>)
         ELSE noop(b, "set_dot_tab", tab)

\* set_bytes_per_line without the comparison of dymo.py 70
set_bytes_per_line_always(b, count) ==
    IF b.err THEN b
    ELSE raw([b EXCEPT !.bytes_per_line = count],
             "set_bytes_per_line", count, <<>>, <<27, 68, count>>)

\* set_bytes_per_line(): the command is appended only when the value changes
set_bytes_per_line(b, count) ==
    IF b.err THEN b
    ELSE IF count # b.bytes_per_line
         THEN raw([b EXCEPT !.bytes_per_line = count],
                  "set_bytes_per_line", count, <<>>, <<27, 68, count>>)
         ELSE noop(b, "set_bytes_per_line", count)

\* int.to_bytes(2, 'big', signed=True): two's complement, OverflowError outside
\* -32768..32767 (modelled as a value raw() rejects)
to_bytes(value) ==
    IF value \in -32768..32767
    THEN <<(value % 65536) \div 256, (value % 65536) % 256>>
    ELSE <<None, None>>

set_label_length(b, length) ==
    raw(b, "set_label_length", length, <<>>, <<27, 76>> \o to_bytes(length))

form_feed(b) == raw(b, "form_feed", 0, <<>>, <<27, 69>>)

short_form_feed(b) == raw(b, "short_form_feed", 0, <<>>, <<27, 71>>)

select_roll(b, role) == raw(b, "select_roll", role, <<>>, <<27, 113, role>>)

\* skip_lines keeping the low 8 bits of the count
skip_lines_wrap(b, count) ==
    raw(b, "skip_lines", count, <<>>, <<27, 102, 1, count % 256>>)

skip_lines(b, count) == raw(b, "skip_lines", count, <<>>, <<27, 102, 1, count>>)

transfer_data(b, data) == raw(b, "transfer_data", 0, data, <<22>> \o data)

\* data is a list of (cnt, color) pairs
transfer_compressed_data(b, data) ==
    raw(b, "transfer_compressed_data", 0, data,
        <<23>> \o [k \in 1..Len(data) |-> (data[k][2] * 128) + data[k][1] - 1])

set_print_mode(b, m) ==
    IF m = "TEXT" THEN raw(b, "set_print_mode", 0, <<>>, <<27, 104>>)
    ELSE IF m = "GRAPHIC" THEN raw(b, "set_print_mode", 0, <<>>, <<27, 105>>)
    ELSE b

set_print_density(b, density) ==
    raw(b, "set_print_density", density, <<>>, <<27, density>>)

set_tape_type(b, tape_type) ==
    raw(b, "set_tape_type", tape_type, <<>>, <<27, 67, tape_type>>)

cut_tape(b) == raw(b, "cut_tape", 0, <<>>, <<27, 69>>)

-----------------------------------------------------------------------------
(* DymoLabelBase.dump_line: the line codec *)

\* any(line): some byte of the row is non-zero
any_byte(line) == \E k \in 1..Len(line) : line[k] # 0

\* the pixels of dymo.py 175 with the digits of each byte in reverse order
PixelsReversed(data) ==
    [p \in 1..(8 * Len(data)) |-> Bits(data[((p - 1) \div 8) + 1])[8 - ((p - 1) % 8)]]

\* pixels = [int(i) for a in data for i in list('{0:0b}'.format(a).zfill(8))]
Pixels(data) == [p \in 1..(8 * Len(data)) |-> Bits(data[((p - 1) \div 8) + 1])[((p - 1) % 8) + 1]]

\* runs are limited to this many pixels (dymo.py:179)
MaxRun == 128
\* the loop of dymo.py 178-182 from index i on, then line 183; a run is the
\* pair <<length, color>>.  The loop is advanced in one step to the next index
\* where the condition of line 179 holds (the indices between change nothing).
RECURSIVE RunLoop(_, _, _, _, _, _)
RunLoop(pixels, i, start_idx, curr, acc, limit) ==
    LET hits == {j \in i..(Len(pixels) - 1) :
                    pixels[j + 1] # curr \/ j - start_idx >= limit}
    IN  IF hits = {}
        THEN Append(acc, <<Len(pixels) - start_idx, curr>>)
        ELSE LET j == Min(hits)
             IN  RunLoop(pixels, j + 1, j, pixels[j + 1],
                         Append(acc, <<j - start_idx, curr>>), limit)

\* dymo.py 179 with > for >=
RunsOff(pixels) == RunLoop(pixels, 0, 0, pixels[1], <<>>, MaxRun + 1)

\* compressed, as built by dymo.py 174-183
Runs(pixels) == RunLoop(pixels, 0, 0, pixels[1], <<>>, MaxRun)

\* sum(c[0] for c in compressed)
RunSum(runs) == SumSeq([k \in 1..Len(runs) |-> runs[k][1]])

\* start_byte / end_byte of dymo.py 154-159 (0-based); line[i] > 0
NonZero(line) == {i \in 0..(Len(line) - 1) : line[i + 1] > 0}
StartByte(line) == Min(NonZero(line))
EndByte(line) == Max(NonZero(line))

\* data = line[start_byte:end_byte + 1]
Window(line) == SubSeq(line, StartByte(line) + 1, EndByte(line) + 1)

\* dymo.py 185 with <= for <
UseCompressedOff(cflag, runs, data) == cflag /\ Len(runs) <= Len(data)

\* dymo.py 173, 185: the compressed transfer is chosen
UseCompressed(cflag, runs, data) == cflag /\ Len(runs) < Len(data)

\* dymo.py 187 with the count of runs for the count of bytes
CompressedCountOff(runs) == Len(runs)

\* dymo.py 187: the bytes per line declared for a compressed transfer
CompressedCount(runs) == RunSum(runs) \div 8

\* the blank line with the dot tab set back to column 0
dump_blank_tab(b) == transfer_data(set_bytes_per_line(set_dot_tab(b, 0), 0), <<>>)

\* dymo.py 161-165: the blank line
dump_blank(b) == transfer_data(set_bytes_per_line(b, 0), <<>>)

\* dymo.py 167-195: the line with a set bit
dump_window(b, line, cflag) ==
    LET start_byte == StartByte(line)
        end_byte   == EndByte(line)
        byte_count == end_byte - start_byte + 1
        data       == Window(line)
        runs       == Runs(Pixels(data))
    IN  IF UseCompressed(cflag, runs, data)
        THEN transfer_compressed_data(
                 set_bytes_per_line(set_dot_tab(b, start_byte), CompressedCount(runs)),
                 runs)
        ELSE transfer_data(
                 set_bytes_per_line(set_dot_tab(b, start_byte), byte_count),
                 data)

dump_line(b, line, cflag) ==
    IF NonZero(line) = {} THEN dump_blank(b) ELSE dump_window(b, line, cflag)

-----------------------------------------------------------------------------
(* DymoLabel and DymoTape: the job builders *)

\* defaults of DymoLabel.__init__ and DymoTape.__init__
label_length == 3058
\* PrintDensity.NORMAL = ord("e")
density == 101
\* RoleSelect.AUTOMATIC
role_select == 48
\* TapeType.BLACK_ON_WHITE_CLEAR
tape_type == 0

\* DymoLabel.init_job
label_init_job(b, m) ==
    set_bytes_per_line(
      set_dot_tab(
        select_roll(
          set_print_mode(
            set_label_length(
              set_print_density(raw(b, "raw", 0, <<>>, <<81, 0, 0>>), density),
              label_length),
            m),
          role_select),
        0),
      84)

\* DymoTape.init_job
tape_init_job(b) ==
    set_tape_type(
      set_bytes_per_line(set_dot_tab(raw(b, "raw", 0, <<>>, <<1>>), 0), 0),
      tape_type)

\* init_job of the class of the job
init_job(k, b, m) == IF k = "label" THEN label_init_job(b, m) ELSE tape_init_job(b)

\* DymoLabel.end_job without the form feed
end_job_nothing(k, b) == b

\* end_job: DymoLabel.end_job, and DymoLabelBase.end_job (pass) for DymoTape
end_job(k, b) == IF k = "label" THEN form_feed(b) ELSE b

\* dymo.py 258-262: the index of the last row with a set bit, the last row
\* when there is none
last_line_idx(lns) ==
    LET nonblank == {i \in 0..(Len(lns) - 1) : any_byte(lns[i + 1])}
    IN  IF nonblank = {} THEN Len(lns) - 1 ELSE Max(nonblank)

\* dymo.py 274-276 without the skip-lines command
flush_blank_off(b, empty_lines) == b

\* dymo.py 274-276: the blank rows counted so far go out as one skip-lines
\* command in front of a row with a set bit
flush_blank(b, empty_lines) ==
    IF empty_lines > 0 THEN skip_lines(b, empty_lines) ELSE b

\* dymo.py 266-284: the walk from row i on; idxs collects the indices of the
\* rows handed to dump_line.  The loop is advanced in one step over the blank
\* rows in front of the next row with a set bit (lines 270-273 only count
\* them).  An exception (b.err) leaves the loop.
RECURSIVE walk(_, _, _, _, _, _, _)
walk(b, lns, i, empty_lines, last, idxs, cflag) ==
    LET nonblank == {j \in i..(Len(lns) - 1) : any_byte(lns[j + 1])}
    IN  IF b.err \/ nonblank = {}
        THEN [pb |-> b, dumped |-> idxs]
        ELSE LET j  == Min(nonblank)
                 b1 == flush_blank(b, empty_lines + (j - i))
                 b2 == dump_line(b1, lns[j + 1], cflag)
                 ix == IF b1.err THEN idxs ELSE Append(idxs, j)
             IN  IF last = j + 1
                 THEN [pb |-> b2, dumped |-> ix]
                 ELSE walk(b2, lns, j + 1, 0, last, ix, cflag)

\* DymoLabel.dump_label without the short form feed
label_dump_label_nofeed(b, lns, cflag) ==
    walk(b, lns, 0, 0, last_line_idx(lns), <<>>, cflag)

\* DymoLabel.dump_label with a skip-lines command for the rows that follow
\* the last row handed to dump_line
label_dump_label_flush(b, lns, cflag) ==
    LET w == walk(b, lns, 0, 0, last_line_idx(lns), <<>>, cflag)
        rest == Len(lns) - (IF w.dumped = <<>> THEN 0
                            ELSE w.dumped[Len(w.dumped)] + 1)
    IN  [pb |-> short_form_feed(flush_blank(w.pb, rest)), dumped |-> w.dumped]

\* DymoLabel.dump_label; lns is the result of png_to_lines (the image
\* operations of PIL are not modelled)
label_dump_label(b, lns, cflag) ==
    LET w == walk(b, lns, 0, 0, last_line_idx(lns), <<>>, cflag)
    IN  [pb |-> short_form_feed(w.pb), dumped |-> w.dumped]

\* dymo.py 312-317: the rows from i on
RECURSIVE tape_rows(_, _, _, _)
tape_rows(b, lns, i, cflag) ==
    IF b.err \/ ~(i < Len(lns)) THEN b
    ELSE tape_rows(dump_line(b, lns[i + 1], cflag), lns, i + 1, cflag)

\* DymoTape.dump_label with the blank-row elision of DymoLabel.dump_label
tape_dump_label_elide(b, lns, cflag) ==
    [pb |-> cut_tape(walk(b, lns, 0, 0, last_line_idx(lns), <<>>, cflag).pb),
     dumped |-> [k \in 1..Len(lns) |-> k - 1]]

\* DymoTape.dump_label
tape_dump_label(b, lns, cflag) ==
    [pb |-> cut_tape(tape_rows(b, lns, 0, cflag)),
     dumped |-> [k \in 1..Len(lns) |-> k - 1]]

dump_label(k, b, lns, cflag) ==
    IF k = "label" THEN label_dump_label(b, lns, cflag)
    ELSE tape_dump_label(b, lns, cflag)

\* add_label with a list: the loop of dymo.py 142-143
RECURSIVE dump_list(_, _, _, _, _)
dump_list(k, b, pngs, cflag, acc) ==
    IF pngs = <<>> THEN [pb |-> b, dumped |-> acc]
    ELSE LET r == dump_label(k, b, Head(pngs), cflag)
         IN  dump_list(k, r.pb, Tail(pngs), cflag, Append(acc, r.dumped))

-----------------------------------------------------------------------------
(* dymo_to_png.py: the stream decoder *)

\* B_COMMANDS: the argument count of each command byte (dymo_to_png.py 12-31)
ArgCount ==
    [b \in {66, 68, 113} |-> 1] @@ [b \in {76, 102} |-> 2] @@
    [b \in {69, 71, 65, 64, 42, 86, 104, 105, 99, 100, 101, 103} |-> 0]

\* the decoder before its first step (dymo_to_png.py 34-40).  A row of data is
\* the list of its pixels, 0 for " " and 1 for "#"; bc keeps the value the
\* local bc had at the end of the last 0x17 branch; status is "run" in the
\* loop, "done" after it, or the exception that ended the script; at is the
\* history of <<dot_tab, bytes_per_line>> at each 0x16 / 0x17 branch.
DecInit ==
    [i |-> 0, bytes_per_line |-> 0, dot_tab |-> 0, graphic_mode |-> FALSE,
     last_escape |-> FALSE, data |-> <<>>, bc |-> 0, status |-> "run",
     at |-> <<>>]

\* n pixels of one color
Glyphs(n, c) == [k \in 1..n |-> c]

\* all_bytes[j] raises IndexError for j >= len(all_bytes)
InRange(a, j) == j >= 0 /\ j < Len(a)

\* all_bytes[lo:hi], which never raises: the slice is cut at the end of the list
Slice(a, lo, hi) ==
    SubSeq(a, lo + 1, IF hi < Len(a) THEN hi ELSE Len(a))

\* the inner loop of the 0x17 branch (dymo_to_png.py 60-65)
RECURSIVE ReadRuns(_, _, _, _, _, _)
ReadRuns(a, i, bpl, d, bc, line) ==
    IF ~(d < bpl * 8) THEN [line |-> line, bc |-> bc, ok |-> TRUE]
    ELSE IF ~InRange(a, i + 1 + bc) THEN [line |-> line, bc |-> bc, ok |-> FALSE]
    ELSE LET f   == a[i + 1 + bc + 1]
             c   == f \div 128
             num == (f % 128) + 1
         IN  ReadRuns(a, i, bpl, d + num, bc + 1, line \o Glyphs(num, c))

\* dymo_to_png.py 44-49
DecEscape(s, a) ==
    IF ~InRange(a, s.i + 1) THEN [s EXCEPT !.status = "IndexError"]
    ELSE [s EXCEPT !.last_escape = TRUE, !.i = @ + 1]

\* dymo_to_png.py 50-55
DecRaw(s, a) ==
    LET line == Glyphs(s.dot_tab * 8, 0) \o
                Pixels(Slice(a, s.i + 1, s.i + 1 + s.bytes_per_line))
    IN  [s EXCEPT !.data = Append(@, line), !.i = @ + 1 + s.bytes_per_line,
                  !.at = Append(@, <<s.dot_tab, s.bytes_per_line>>)]

\* dymo_to_png.py 56-72 with 0x1B missing from the list of line 69
DecCompressedStrict(s, a) ==
    LET r == ReadRuns(a, s.i, s.bytes_per_line, 0, 0, Glyphs(s.dot_tab * 8, 0))
        i2 == s.i + 1 + r.bc
    IN  IF ~r.ok THEN [s EXCEPT !.bc = r.bc, !.status = "IndexError"]
        ELSE LET s2 == [s EXCEPT !.data = Append(@, r.line), !.i = i2, !.bc = r.bc,
                                 !.at = Append(@, <<s.dot_tab, s.bytes_per_line>>)]
             IN  IF ~InRange(a, i2) THEN [s2 EXCEPT !.status = "IndexError"]
                 ELSE IF a[i2 + 1] \notin {22, 23}
                      THEN [s2 EXCEPT !.status = "AssertionError"]
                      ELSE s2

\* dymo_to_png.py 56-72
DecCompressed(s, a) ==
    LET r == ReadRuns(a, s.i, s.bytes_per_line, 0, 0, Glyphs(s.dot_tab * 8, 0))
        i2 == s.i + 1 + r.bc
    IN  IF ~r.ok THEN [s EXCEPT !.bc = r.bc, !.status = "IndexError"]
        ELSE LET s2 == [s EXCEPT !.data = Append(@, r.line), !.i = i2, !.bc = r.bc,
                                 !.at = Append(@, <<s.dot_tab, s.bytes_per_line>>)]
             IN  IF ~InRange(a, i2) THEN [s2 EXCEPT !.status = "IndexError"]
                 ELSE IF a[i2 + 1] \notin {22, 23, 27}
                      THEN [s2 EXCEPT !.status = "AssertionError"]
                      ELSE s2

\* dymo_to_png.py 73-96 (the print calls write to stdout only)
DecOther(s, a) ==
    LET b == a[s.i + 1]
    IN  IF b \in {68, 66} /\ ~InRange(a, s.i + 1) THEN [s EXCEPT !.status = "IndexError"]
        ELSE IF b = 102 /\ ~InRange(a, s.i + 2) THEN [s EXCEPT !.status = "IndexError"]
        ELSE [s EXCEPT
                !.bytes_per_line = IF b = 68 THEN a[s.i + 2] ELSE @,
                !.dot_tab = IF b = 66 THEN a[s.i + 2] ELSE @,
                !.data = IF b = 102 THEN @ \o [k \in 1..a[s.i + 3] |-> <<>>] ELSE @,
                !.graphic_mode = IF b = 105 THEN TRUE ELSE @,
                !.i = IF s.last_escape /\ b \in DOMAIN ArgCount
                      THEN @ + ArgCount[b] + 1 ELSE @ + 1,
                !.last_escape = FALSE]

\* one evaluation of the loop condition and the loop body (dymo_to_png.py 42-96)
DecStep(s, a) ==
    IF ~(s.i < Len(a)) THEN [s EXCEPT !.status = "done"]
    ELSE LET b == a[s.i + 1]
         IN  IF b = 27 THEN DecEscape(s, a)
             ELSE IF b = 22 THEN DecRaw(s, a)
             ELSE IF b = 23 THEN DecCompressed(s, a)
             ELSE DecOther(s, a)

\* the loop run to its end ("done") or to the exception that ends the script;
\* the output of the rows after the loop (dymo_to_png.py 98-113) is not modelled
RECURSIVE DecRun(_, _)
DecRun(s, a) == IF s.status # "run" THEN s ELSE DecRun(DecStep(s, a), a)

\* the script run on the bytes a
Decode(a) == DecRun(DecInit, a)

-----------------------------------------------------------------------------
(* InvenTreeDymoPlugin.send_data: the transport *)

\* send_data is not running.  pc is the position in send_data, status the
\* machine status, events the calls made on the machine and the socket in
\* order, data the bytes to send, sent the bytes the socket took, failed the
\* call that raised.
NoTx ==
    [pc |-> "idle", status |-> "CONNECTED", events |-> <<>>, data |-> <<>>,
     sent |-> 0, failed |-> "none"]

\* the calls on the socket inside the try block, in order (134-137)
SocketCalls == <<"socket", "connect", "send", "close">>

\* InvenTreeDymoPlugin.py 128-131: the status is set, the settings are read
tx_begin(t) ==
    [t EXCEPT !.status = "UNKNOWN",
              !.events = @ \o <<"set_status UNKNOWN", "get_setting SERVER",
                                "get_setting PORT">>,
              !.pc = SocketCalls[1]]

\* one call of the try block (134-137): the call at t.pc is made; it returns
\* (ok) or raises; send(data) returns after the socket took n bytes
tx_call(t, ok, n) ==
    LET k == CHOOSE j \in 1..Len(SocketCalls) : SocketCalls[j] = t.pc
    IN  [t EXCEPT !.events = Append(@, t.pc),
                  !.sent = IF ok /\ t.pc = "send" THEN n ELSE @,
                  !.failed = IF ok THEN @ ELSE t.pc,
                  !.pc = IF ~ok THEN "except"
                         ELSE IF k < Len(SocketCalls) THEN SocketCalls[k + 1]
                         ELSE "done"]

\* the except block without the status change
tx_except_quiet(t) ==
    [t EXCEPT !.events = @ \o <<"handle_error">>, !.pc = "done"]

\* the except block (138-140)
tx_except(t) ==
    [t EXCEPT !.status = "DISCONNECTED",
              !.events = @ \o <<"set_status DISCONNECTED", "handle_error">>,
              !.pc = "done"]

-----------------------------------------------------------------------------
(* Inputs *)

\* rows of the bitmaps of the jobs, two bytes wide: blank, all bits set
\* (window at byte 0, two bytes), bits set in the right byte only (window at
\* byte 1, one byte)
Rows == {<<0, 0>>, <<255, 255>>, <<0, 255>>}

\* results of png_to_lines with h rows, 1 <= h
BitmapsOf(h) == [1..h -> Rows]

\* bitmaps of at most n rows
BitmapsWithin(n) == UNION {BitmapsOf(h) : h \in 1..n}

\* lists of bitmaps with at most n rows taken together
RECURSIVE ListsWithin(_)
ListsWithin(n) ==
    {<<>>} \cup
    UNION {{<<png>> \o l : l \in ListsWithin(n - Len(png))} : png \in BitmapsWithin(n)}

\* rows handed to the line codec: short rows, and rows of MaxLong bytes (more
\* than 128 pixels) with z leading zero bytes
ShortLines ==
    {<<0>>, <<255>>, <<0, 0>>, <<255, 255>>, <<0, 255>>, <<170, 170>>,
     <<0, 1, 128, 0>>, <<255, 0, 255>>, <<255, 255, 0, 255>>}

LongLines ==
    {[k \in 1..MaxLong |-> IF k <= z THEN 0 ELSE 255] : z \in {0, 1, MaxLong}}

LineInputs == ShortLines \cup LongLines

\* byte lists of n entries over the set S
RECURSIVE SeqsOf(_, _)
SeqsOf(S, n) ==
    IF n = 0 THEN {<<>>} ELSE {Append(q, x) : q \in SeqsOf(S, n - 1), x \in S}

\* run bytes: 8 white, 8 black, 16 white, 128 white pixels
RunBytes == {7, 135, 15, 127}

\* what follows the compressed block: nothing, a short form feed, the end of a
\* label job, a raw transfer
Tails == {<<>>, <<27, 71>>, <<27, 71, 27, 69>>, <<22, 255>>}

\* no compressed block was made
NoBlock == [count |-> 0, runs |-> <<>>, tail |-> <<>>]

\* a stream given to the decoder: set bytes per line (count), one compressed
\* block of the run bytes runs, then tail
BlockStream(blk) == <<27, 68, blk.count, 23>> \o blk.runs \o blk.tail

Blocks ==
    {[count |-> c, runs |-> r, tail |-> t] :
        c \in 1..MaxDeclared,
        r \in UNION {SeqsOf(RunBytes, n) : n \in 1..MaxBlock},
        t \in Tails}

-----------------------------------------------------------------------------
(* The job: construction, add_label, get_data *)

\* the state after DymoLabel(...) or DymoTape(...): __init__ runs init_job
Init ==
    /\ kind \in {"label", "tape"}
    /\ compressed \in (IF kind = "label" THEN BOOLEAN ELSE {FALSE})
    /\ mode \in (IF kind = "label" THEN {"TEXT", "GRAPHIC"} ELSE {"TEXT"})
    /\ pb = init_job(kind, NewBuilder, mode)
    /\ labels = <<>>
    /\ dumped = <<>>
    /\ returned = <<>>
    /\ lines = <<>>
    /\ all_bytes = <<>>
    /\ dec = DecInit
    /\ block = NoBlock
    /\ attempts = <<>>
    /\ tx = NoTx

\* rows of the bitmaps the job has received
RowsUsed == SumSeq([k \in 1..Len(labels) |-> Len(labels[k])])

\* add_label(png) with one image
AddLabel(png) ==
    /\ LET r == dump_label(kind, [pb EXCEPT !.err = FALSE], png, compressed)
       IN  /\ pb' = r.pb
           /\ dumped' = Append(dumped, r.dumped)
    /\ labels' = Append(labels, png)
    /\ UNCHANGED <<kind, compressed, mode, returned, lines, all_bytes, dec, block,
                   attempts, tx>>

\* add_label(png) with a list of images
AddLabelList(pngs) ==
    /\ LET r == dump_list(kind, [pb EXCEPT !.err = FALSE], pngs, compressed, <<>>)
       IN  /\ pb' = r.pb
           /\ dumped' = dumped \o r.dumped
    /\ labels' = labels \o pngs
    /\ UNCHANGED <<kind, compressed, mode, returned, lines, all_bytes, dec, block,
                   attempts, tx>>

\* get_data(): end_job, then the bytearray object self.pb.data itself is
\* returned, not a copy
GetData ==
    /\ Len(returned) < MaxGetData
    /\ pb' = end_job(kind, [pb EXCEPT !.err = FALSE])
    /\ returned' = Append(returned, Len(labels))
    /\ UNCHANGED <<kind, compressed, mode, labels, dumped, lines, all_bytes, dec, block,
                   attempts, tx>>

Next ==
    \/ \E png \in BitmapsWithin(MaxRows - RowsUsed) : AddLabel(png)
    \/ \E pngs \in ListsWithin(MaxRows - RowsUsed) : AddLabelList(pngs)
    \/ GetData

Spec == Init /\ [][Next]_vars

-----------------------------------------------------------------------------
(* The line codec run on rows one after the other *)

\* a job object after construction; dump_line is then called on it directly
InitLine ==
    /\ kind \in {"label", "tape"}
    /\ compressed \in (IF kind = "label" THEN BOOLEAN ELSE {FALSE})
    /\ mode = "TEXT"
    /\ pb = init_job(kind, NewBuilder, mode)
    /\ labels = <<>>
    /\ dumped = <<>>
    /\ returned = <<>>
    /\ lines = <<>>
    /\ all_bytes = <<>>
    /\ dec = DecInit
    /\ block = NoBlock
    /\ attempts = <<>>
    /\ tx = NoTx

\* dump_line(line)
DumpLine(line) ==
    /\ Len(lines) < MaxLines
    /\ pb' = dump_line([pb EXCEPT !.err = FALSE], line, compressed)
    /\ lines' = Append(lines, line)
    /\ UNCHANGED <<kind, compressed, mode, labels, dumped, returned, all_bytes, dec, block,
                   attempts, tx>>

NextLine == \E line \in LineInputs : DumpLine(line)

SpecLine == InitLine /\ [][NextLine]_vars

-----------------------------------------------------------------------------
(* The decoder run on a stream with one compressed block *)

InitDecode ==
    /\ kind = "label"
    /\ compressed = TRUE
    /\ mode = "TEXT"
    /\ pb = NewBuilder
    /\ labels = <<>>
    /\ dumped = <<>>
    /\ returned = <<>>
    /\ lines = <<>>
    /\ block \in Blocks
    /\ all_bytes = BlockStream(block)
    /\ dec = DecInit
    /\ attempts = <<>>
    /\ tx = NoTx

\* one turn of the loop of dymo_to_png.py
DecoderStep ==
    /\ dec.status = "run"
    /\ dec' = DecStep(dec, all_bytes)
    /\ UNCHANGED <<kind, compressed, mode, pb, labels, dumped, returned, lines,
                   all_bytes, block, attempts, tx>>

NextDecode == DecoderStep

SpecDecode == InitDecode /\ [][NextDecode]_vars

-----------------------------------------------------------------------------
(* A label job that receives tall bitmaps *)

\* results of png_to_lines: h blank rows, then one row with set bits
TallBitmaps ==
    {[r \in 1..(h + 1) |-> IF r <= h THEN <<0, 0>> ELSE row] :
        h \in {1, MaxBlank - 1, MaxBlank}, row \in {<<255, 255>>, <<0, 255>>}}

\* the state after DymoLabel(...)
InitTall ==
    /\ kind = "label"
    /\ compressed \in BOOLEAN
    /\ mode \in {"TEXT", "GRAPHIC"}
    /\ pb = init_job(kind, NewBuilder, mode)
    /\ labels = <<>>
    /\ dumped = <<>>
    /\ returned = <<>>
    /\ lines = <<>>
    /\ all_bytes = <<>>
    /\ dec = DecInit
    /\ block = NoBlock
    /\ attempts = <<>>
    /\ tx = NoTx

NextTall ==
    \/ \E png \in TallBitmaps : Len(labels) < MaxTall /\ AddLabel(png)
    \/ GetData

SpecTall == InitTall /\ [][NextTall]_vars

-----------------------------------------------------------------------------
(* The protocol builder called directly *)

\* arguments of skip_lines: around both ends of the byte range
SkipCounts == {0, 1, 255, 256, 300}

\* arguments of set_dot_tab and set_bytes_per_line
SetterArgs == {0, 1, 255, 256}

\* runs (cnt, color) around both ends of the length range 1..128
RunInputs == {<<cnt, color>> : cnt \in {0, 1, 128, 129, 256}, color \in {0, 1}}

\* run lists: one run, and a run of 8 set pixels followed by one run
RunLists == {<<r>> : r \in RunInputs} \cup {<<<<8, 1>>, r>> : r \in RunInputs}

\* a DymoProtocolBuilder after __init__; its methods are then called directly
InitBuilder ==
    /\ kind = "label"
    /\ compressed = FALSE
    /\ mode = "TEXT"
    /\ pb = NewBuilder
    /\ labels = <<>>
    /\ dumped = <<>>
    /\ returned = <<>>
    /\ lines = <<>>
    /\ all_bytes = <<>>
    /\ dec = DecInit
    /\ block = NoBlock
    /\ attempts = <<>>
    /\ tx = NoTx

\* the record of a direct call
Attempt(op, arg, val) == [op |-> op, arg |-> arg, val |-> val]

\* pb.skip_lines(count)
CallSkipLines(count) ==
    /\ Len(attempts) < MaxCalls
    /\ pb' = skip_lines([pb EXCEPT !.err = FALSE], count)
    /\ attempts' = Append(attempts, Attempt("skip_lines", count, <<>>))
    /\ UNCHANGED <<kind, compressed, mode, labels, dumped, returned, lines,
                   all_bytes, dec, block, tx>>

\* pb.transfer_compressed_data(data)
CallTransferCompressed(data) ==
    /\ Len(attempts) < MaxCalls
    /\ pb' = transfer_compressed_data([pb EXCEPT !.err = FALSE], data)
    /\ attempts' = Append(attempts, Attempt("transfer_compressed_data", 0, data))
    /\ UNCHANGED <<kind, compressed, mode, labels, dumped, returned, lines,
                   all_bytes, dec, block, tx>>

\* pb.set_dot_tab(value)
CallSetDotTab(value) ==
    /\ Len(attempts) < MaxCalls
    /\ pb' = set_dot_tab([pb EXCEPT !.err = FALSE], value)
    /\ attempts' = Append(attempts, Attempt("set_dot_tab", value, <<>>))
    /\ UNCHANGED <<kind, compressed, mode, labels, dumped, returned, lines,
                   all_bytes, dec, block, tx>>

\* pb.set_bytes_per_line(value)
CallSetBytesPerLine(value) ==
    /\ Len(attempts) < MaxCalls
    /\ pb' = set_bytes_per_line([pb EXCEPT !.err = FALSE], value)
    /\ attempts' = Append(attempts, Attempt("set_bytes_per_line", value, <<>>))
    /\ UNCHANGED <<kind, compressed, mode, labels, dumped, returned, lines,
                   all_bytes, dec, block, tx>>

NextBuilder ==
    \/ \E count \in SkipCounts : CallSkipLines(count)
    \/ \E data \in RunLists : CallTransferCompressed(data)
    \/ \E value \in SetterArgs : CallSetDotTab(value)
    \/ \E value \in SetterArgs : CallSetBytesPerLine(value)

SpecBuilder == InitBuilder /\ [][NextBuilder]_vars

-----------------------------------------------------------------------------
(* send_data called with the bytes of a job *)

\* machine.status before the call
MachineStatus == {"CONNECTED", "UNKNOWN", "DISCONNECTED"}

\* data: the buffers of jobs that received no bitmap
SendBuffers ==
    {end_job("label", init_job("label", NewBuilder, m)).data : m \in {"TEXT", "GRAPHIC"}}
    \cup {end_job("tape", init_job("tape", NewBuilder, "TEXT")).data}

\* send_data(machine, data) was called
InitSend ==
    /\ kind = "label"
    /\ compressed = FALSE
    /\ mode = "TEXT"
    /\ pb = NewBuilder
    /\ labels = <<>>
    /\ dumped = <<>>
    /\ returned = <<>>
    /\ lines = <<>>
    /\ all_bytes = <<>>
    /\ dec = DecInit
    /\ block = NoBlock
    /\ attempts = <<>>
    /\ tx \in {[NoTx EXCEPT !.pc = "start", !.status = st, !.data = d] :
                  st \in MachineStatus, d \in SendBuffers}

\* lines 128-131
SendBegin ==
    /\ tx.pc = "start"
    /\ tx' = tx_begin(tx)
    /\ UNCHANGED <<kind, compressed, mode, pb, labels, dumped, returned, lines,
                   all_bytes, dec, block, attempts>>

\* one line of the try block: the call returns or raises
SendTry(ok, n) ==
    /\ tx.pc \in {SocketCalls[j] : j \in 1..Len(SocketCalls)}
    /\ tx' = tx_call(tx, ok, n)
    /\ UNCHANGED <<kind, compressed, mode, pb, labels, dumped, returned, lines,
                   all_bytes, dec, block, attempts>>

\* the except block
SendExcept ==
    /\ tx.pc = "except"
    /\ tx' = tx_except(tx)
    /\ UNCHANGED <<kind, compressed, mode, pb, labels, dumped, returned, lines,
                   all_bytes, dec, block, attempts>>

NextSend ==
    \/ SendBegin
    \/ \E ok \in BOOLEAN, n \in 1..Len(tx.data) : SendTry(ok, n)
    \/ SendExcept

SpecSend == InitSend /\ [][NextSend]_vars

-----------------------------------------------------------------------------
(* Vocabulary of the properties *)

Last(q) == q[Len(q)]

\* the increasing list of the members of a set of integers
RECURSIVE SortedSeq(_)
SortedSeq(S) == IF S = {} THEN <<>> ELSE <<Min(S)>> \o SortedSeq(S \ {Min(S)})

IsTransfer(c) == c.op \in {"transfer_data", "transfer_compressed_data"}
IsSetter(c) == c.op \in {"set_dot_tab", "set_bytes_per_line"}
Emits(c) == c.out # <<>>

\* the calls that appended bytes, in order
Emitted == SelectSeq(pb.calls, Emits)

\* the transfer calls, in order
Transfers == SelectSeq(pb.calls, IsTransfer)

\* the argument of the most recent command op appended to the buffer before
\* call k, None when there is none
LastEmitted(k, op) ==
    LET before == {j \in 1..(k - 1) : pb.calls[j].op = op /\ Emits(pb.calls[j])}
    IN  IF before = {} THEN None ELSE pb.calls[Max(before)].arg

\* the indices (0-based) of the rows of a bitmap that have a set bit
NonBlankRows(png) == {r \in 0..(Len(png) - 1) : \E k \in 1..Len(png[r + 1]) : png[r + 1][k] # 0}

\* the rows of a bitmap up to its last row with a set bit, as pixels
ActiveRegion(png) ==
    IF NonBlankRows(png) = {} THEN <<>>
    ELSE [r \in 1..(Max(NonBlankRows(png)) + 1) |-> Pixels(png[r])]

\* a decoded row padded with blank columns to n pixels
PadTo(row, n) == IF Len(row) < n THEN row \o Glyphs(n - Len(row), 0) ELSE row

\* the job was built, received its bitmaps, and get_data() was then called once
FinishedOnce == returned = <<Len(labels)>>

\* the number of runs of at most 128 equal pixels a pixel list splits into,
\* counted stretch by stretch
RunCount(pixels) ==
    LET n      == Len(pixels)
        starts == {p \in 1..n : p = 1 \/ pixels[p] # pixels[p - 1]}
        end(p) == Min({q \in (starts \cup {n + 1}) : q > p})
        parts  == [p \in starts |-> (((end(p) - p) + 127) \div 128)]
    IN  SumSeq([k \in 1..Cardinality(starts) |-> parts[SortedSeq(starts)[k]]])

\* the rows handed to dump_line so far, in order
DumpedLines ==
    lines \o
    Flatten([j \in 1..Len(dumped) |->
                [k \in 1..Len(dumped[j]) |-> labels[j][dumped[j][k] + 1]]])

-----------------------------------------------------------------------------
(* Properties *)

\* C1: round trip.  In a label job, after get_data(), the rows the decoder
\* reconstructs from the returned bytes are, label after label, the rows of
\* each bitmap from row 0 up to its last non-blank row, pixel for pixel once
\* padded with blank columns.
RoundTrip ==
    (kind = "label" /\ FinishedOnce) =>
        LET d        == Decode(pb.data)
            expected == Flatten([j \in 1..Len(labels) |-> ActiveRegion(labels[j])])
        IN  /\ d.status = "done"
            /\ Len(d.data) >= Len(expected)
            /\ \A r \in 1..Len(expected) :
                  r <= Len(d.data) => PadTo(d.data[r], Len(expected[r])) = expected[r]

\* C2: in label mode dump_label hands every non-blank row of the bitmap to the
\* line codec exactly once, in top-to-bottom order: the walk does not stop
\* before the last non-blank row was dumped.
EveryNonBlankRowDumped ==
    kind = "label" =>
        \A j \in 1..Len(labels) : dumped[j] = SortedSeq(NonBlankRows(labels[j]))

\* C3: memoization.  A call of set_dot_tab(n) / set_bytes_per_line(n) appends
\* its command (1B 42 n / 1B 44 n) iff n differs from the argument of the most
\* recent such command appended in this job, the first call always appending;
\* and between the transfers of two consecutive lines with the same window start
\* and byte count no such command is appended, across labels too.
Memoization ==
    /\ \A k \in 1..Len(pb.calls) :
          LET c == pb.calls[k]
          IN  IsSetter(c) =>
                /\ Emits(c) <=> (c.arg # LastEmitted(k, c.op))
                /\ Emits(c) =>
                      c.out = <<27, IF c.op = "set_dot_tab" THEN 66 ELSE 68, c.arg>>
    /\ \A k1, k2 \in 1..Len(pb.calls) :
          LET c == pb.calls
          IN  ( /\ k1 < k2 /\ k1 > 2
                /\ IsTransfer(c[k1]) /\ IsTransfer(c[k2])
                /\ \A k \in (k1 + 1)..(k2 - 1) : ~IsTransfer(c[k])
                /\ c[k1 - 2].op = "set_dot_tab" /\ c[k2 - 2].op = "set_dot_tab"
                /\ c[k1 - 2].arg = c[k2 - 2].arg
                /\ c[k1 - 1].arg = c[k2 - 1].arg )
              => \A k \in (k1 + 1)..(k2 - 1) : IsSetter(c[k]) => ~Emits(c[k])

\* C3 witness: the first line of a later label has the window of the line
\* dumped before it, and neither command is repeated after the short form feed.
MemoizationWitness ==
    /\ kind = "label"
    /\ \E k \in 2..(Len(pb.calls) - 2) :
          /\ pb.calls[k - 1].op = "short_form_feed"
          /\ pb.calls[k].op = "set_dot_tab" /\ ~Emits(pb.calls[k])
          /\ pb.calls[k].arg = 1
          /\ pb.calls[k + 1].op = "set_bytes_per_line" /\ ~Emits(pb.calls[k + 1])
          /\ IsTransfer(pb.calls[k + 2])

\* C4: compression tie-break.  Each line gets exactly one transfer; for a
\* non-blank line it is the compressed transfer of the runs when compression is
\* on and there are strictly fewer runs than window bytes, and the raw transfer
\* of the window otherwise (the tie included).
TieBreak ==
    /\ Len(Transfers) = Len(lines)
    /\ \A k \in 1..Len(lines) :
          NonZero(lines[k]) # {} =>
              LET w == Window(lines[k])
                  t == Transfers[k]
              IN  IF compressed /\ RunCount(Pixels(w)) < Len(w)
                  THEN /\ t.op = "transfer_compressed_data"
                       /\ t.out[1] = 23
                       /\ Len(t.val) = RunCount(Pixels(w))
                  ELSE /\ t.op = "transfer_data"
                       /\ t.out = <<22>> \o w

\* C4 witness: with compression on, a window with as many runs as bytes went
\* out raw, after a line that went out compressed.
TieBreakWitness ==
    /\ compressed
    /\ Len(lines) = 2 /\ Len(Transfers) = 2
    /\ NonZero(lines[2]) # {}
    /\ RunCount(Pixels(Window(lines[2]))) = Len(Window(lines[2]))
    /\ Len(Window(lines[2])) = 3
    /\ Transfers[2].op = "transfer_data"
    /\ Transfers[1].op = "transfer_compressed_data"

\* the step handed a blank row to the line codec
BlankLineStep == lines' # lines /\ NonZero(Last(lines')) = {}

\* C5 as claimed: the line codec run on an all-zero row appends exactly
\* 1B 44 00 16, in any encoder state.
BlankLineAlways ==
    [][BlankLineStep => pb'.data = pb.data \o <<27, 68, 0, 22>>]_vars

\* C5 as amended: the line codec run on an all-zero row appends 16 with no
\* payload, preceded by 1B 44 00 exactly when the recorded bytes-per-line value
\* is not already 0.
BlankLineMemoized ==
    [][BlankLineStep =>
          pb'.data = pb.data \o
              (IF pb.bytes_per_line = 0 THEN <<22>> ELSE <<27, 68, 0, 22>>)]_vars

\* C5 witness: a blank row of more than 128 pixels after a non-blank row
\* appended 1B 44 00 16.
BlankLineWitness ==
    /\ Len(lines) = 2
    /\ NonZero(lines[1]) # {}
    /\ NonZero(lines[2]) = {} /\ Len(lines[2]) > 16
    /\ Len(pb.data) > 4
    /\ SubSeq(pb.data, Len(pb.data) - 3, Len(pb.data)) = <<27, 68, 0, 22>>

\* C6: run-length ceiling.  Every run built for a line has a length in 1..128
\* and a color in {0, 1}; no transfer fails; and the byte emitted for a run is
\* in 0..255, its high bit the color and its low 7 bits the length minus one.
RunCeiling ==
    /\ ~pb.err
    /\ \A k \in 1..Len(lines) :
          (compressed /\ NonZero(lines[k]) # {}) =>
              LET runs == Runs(Pixels(Window(lines[k])))
              IN  \A n \in 1..Len(runs) : runs[n][1] \in 1..128 /\ runs[n][2] \in {0, 1}
    /\ \A k \in 1..Len(pb.calls) :
          LET c == pb.calls[k]
          IN  c.op = "transfer_compressed_data" =>
                /\ Len(c.out) = Len(c.val) + 1
                /\ \A n \in 1..Len(c.val) :
                      /\ c.val[n][1] \in 1..128
                      /\ c.out[n + 1] \in 0..255
                      /\ c.out[n + 1] \div 128 = c.val[n][2]
                      /\ c.out[n + 1] % 128 = c.val[n][1] - 1

\* C6 witness: a stretch of more than 128 set pixels went out as a run of 128
\* followed by the rest.
RunCeilingWitness ==
    \E k \in 1..Len(pb.calls) :
        /\ pb.calls[k].op = "transfer_compressed_data"
        /\ Len(pb.calls[k].val) = 2
        /\ pb.calls[k].val[1] = <<128, 1>>
        /\ pb.calls[k].val[2][2] = 1
        /\ pb.calls[k].out[2] = 255

\* the commands of the prologue of a label job, in order
LabelPrologue ==
    <<"raw", "set_print_density", "set_label_length", "set_print_mode",
      "select_roll", "set_dot_tab", "set_bytes_per_line">>

\* C7: command order of a label job.  After construction, k bitmaps and one
\* get_data(), the buffer is the prologue, then k segments of skip-lines /
\* set-dot-tab / set-bytes-per-line / transfer commands each closed by one
\* short form feed (1B 47), then one form feed (1B 45) as the last command; no
\* other form feed or short form feed occurs.
JobOrdering ==
    (kind = "label" /\ FinishedOnce) =>
        LET e == Emitted
            n == Len(e)
            feeds == {k \in 1..n : e[k].op = "short_form_feed"}
        IN  /\ pb.data = Flatten([k \in 1..n |-> e[k].out])
            /\ n >= 8
            /\ [k \in 1..7 |-> e[k].op] = LabelPrologue
            /\ e[n].op = "form_feed" /\ e[n].out = <<27, 69>>
            /\ \A k \in 8..(n - 1) :
                  /\ e[k].op \in {"skip_lines", "set_dot_tab", "set_bytes_per_line",
                                  "transfer_data", "transfer_compressed_data",
                                  "short_form_feed"}
                  /\ e[k].op = "short_form_feed" => e[k].out = <<27, 71>>
            /\ Cardinality(feeds) = Len(labels)
            /\ Len(labels) > 0 => e[n - 1].op = "short_form_feed"

\* C7 witness: a finished label job of three bitmaps with a raw transfer, each
\* closed by its own short form feed.
JobOrderingWitness ==
    /\ kind = "label" /\ FinishedOnce
    /\ Len(labels) = 3
    /\ \E k \in 1..Len(Emitted) : Emitted[k].op = "transfer_data"

\* get_data() returns self.pb.data, the bytearray the builder keeps appending to
ReturnedBuffer == pb.data

\* C8: once get_data() has returned the buffer, its content never changes
\* again, whatever is called on the job afterwards.
ReturnedBufferFrozen ==
    [][returned # <<>> => ReturnedBuffer' = ReturnedBuffer]_vars

\* C9: every transfer matches the declared line width.  A raw transfer carries
\* as many payload bytes as the argument of the most recent set-bytes-per-line
\* command before it; the run lengths of a compressed transfer sum to 8 times
\* that argument; and that argument is the byte length of the window of the
\* line (0 for a blank line).
TransferWidth ==
    /\ Len(Transfers) = Len(DumpedLines)
    /\ \A k \in 1..Len(pb.calls) :
          LET c == pb.calls[k]
              declared == LastEmitted(k, "set_bytes_per_line")
              nth == Cardinality({j \in 1..k : IsTransfer(pb.calls[j])})
              line == DumpedLines[nth]
              width == IF NonZero(line) = {} THEN 0 ELSE Len(Window(line))
          IN  IsTransfer(c) =>
                /\ declared = width
                /\ c.op = "transfer_data" =>
                      Len(c.val) = declared /\ c.out = <<22>> \o c.val
                /\ c.op = "transfer_compressed_data" =>
                      RunSum(c.val) = 8 * declared /\ Len(c.out) = Len(c.val) + 1

\* C9 witness: a compressed transfer of a window of MaxLong bytes after a raw
\* transfer of another width.
TransferWidthWitness ==
    /\ Len(Transfers) = 2
    /\ Transfers[1].op = "transfer_data" /\ Len(Transfers[1].val) = 2
    /\ Transfers[2].op = "transfer_compressed_data"
    /\ RunSum(Transfers[2].val) = 8 * MaxLong
    /\ pb.bytes_per_line = MaxLong

\* the pixels a run byte stands for
RunBits(runs) == SumSeq([k \in 1..Len(runs) |-> (runs[k] % 128) + 1])

\* the run bytes of the block sum to fewer bits than the declared line
ShortBlock == block # NoBlock /\ RunBits(block.runs) < block.count * 8

\* the decoder has gone through the 0x17 branch (the block starts at index 3)
BlockRead == dec.i > 3 \/ dec.status \in {"IndexError", "AssertionError"}

\* C10: decoder resync.  On a compressed block whose run bytes sum to fewer
\* bits than bytesPerLine*8 the decoder raises the stream-desync error
\* (the assertion); it takes no byte after the block as a run and does not
\* index past the end of the buffer.
DecoderResync ==
    (ShortBlock /\ BlockRead) =>
        /\ dec.status = "AssertionError"
        /\ dec.bc <= Len(block.runs)

\* the step called a builder method directly
DirectCall(op) == attempts' # attempts /\ Last(attempts').op = op

\* a run of the list has a length outside 1..128
OutsideRunDomain(data) == \E k \in 1..Len(data) : data[k][1] \notin 1..128

\* C11: run-length domain.  transfer_compressed_data called with a run whose
\* length is outside 1..128 (either color) fails at the call and appends
\* nothing to the buffer.
RunDomain ==
    [][(DirectCall("transfer_compressed_data") /\ OutsideRunDomain(Last(attempts').val))
          => (pb'.err /\ pb'.data = pb.data)]_vars

\* C12: skip-count domain.  skip_lines(count) with count > 255 fails at the
\* call and leaves the buffer unchanged; with count in 0..255 it succeeds and
\* appends exactly 1B 66 01 <count>.
SkipDomain ==
    [][DirectCall("skip_lines") =>
          LET count == Last(attempts').arg
          IN  /\ count > 255 => (pb'.err /\ pb'.data = pb.data)
              /\ count \in 0..255 =>
                    (~pb'.err /\ pb'.data = pb.data \o <<27, 102, 1, count>>)]_vars

\* C12 witness: skip_lines(255) appended 1B 66 01 FF, then skip_lines(256)
\* failed and the buffer still ends with that command.
SkipDomainWitness ==
    /\ Len(attempts) = 2
    /\ attempts[1] = Attempt("skip_lines", 255, <<>>)
    /\ attempts[2] = Attempt("skip_lines", 256, <<>>)
    /\ pb.err
    /\ pb.data = <<27, 102, 1, 255>>

\* how often the event e was logged by send_data
EventCount(e) == Cardinality({k \in 1..Len(tx.events) : tx.events[k] = e})

\* C13: transport trigger points.  send_data sets the machine status to
\* UNKNOWN before any call on the socket; when creating the socket,
\* connecting, sending or closing fails, no further call on the socket is
\* made, the status is set to DISCONNECTED and the error is reported once;
\* connect and send are attempted at most once; without a failure the status
\* is never set to DISCONNECTED and no error is reported.
TransportTrigger ==
    LET e == tx.events
        socketEvents == {k \in 1..Len(e) : \E j \in 1..Len(SocketCalls) : e[k] = SocketCalls[j]}
    IN  /\ socketEvents # {} => e[1] = "set_status UNKNOWN"
        /\ EventCount("connect") <= 1 /\ EventCount("send") <= 1
        /\ (tx.failed # "none" /\ tx.pc = "done") =>
              /\ tx.status = "DISCONNECTED"
              /\ e[Max(socketEvents)] = tx.failed
              /\ SubSeq(e, Max(socketEvents) + 1, Len(e)) =
                     <<"set_status DISCONNECTED", "handle_error">>
              /\ EventCount("handle_error") = 1
        /\ tx.failed = "none" =>
              /\ EventCount("set_status DISCONNECTED") = 0
              /\ EventCount("handle_error") = 0
              /\ tx.pc \notin {"idle", "start"} => tx.status = "UNKNOWN"

\* C13 witness: the machine was CONNECTED, the socket took the bytes, close()
\* raised, and send_data ended with the status DISCONNECTED.
TransportTriggerWitness ==
    /\ tx.pc = "done" /\ tx.failed = "close"
    /\ tx.sent = Len(tx.data) /\ tx.sent > 0
    /\ tx.events[1] = "set_status UNKNOWN"
    /\ tx.status = "DISCONNECTED"

\* the positions of the short form feeds in a list of calls
FeedsIn(cs) == {k \in 1..Len(cs) : cs[k].op = "short_form_feed"}

\* the calls of the j-th label of a list of calls: those in front of its
\* short form feed, after the short form feed of the label before
Segment(cs, j) ==
    LET f == SortedSeq(FeedsIn(cs))
    IN  SubSeq(cs, IF j = 1 THEN 1 ELSE f[j - 1] + 1, f[j] - 1)

\* the positions of the transfers in a list of calls
TransfersIn(seg) == {k \in 1..Len(seg) : IsTransfer(seg[k])}

\* the row the printer is at when it receives call k of a label: the counts of
\* the skip-lines commands plus the number of transfers in front of k
RowAt(seg, k) ==
    SumSeq([n \in 1..(k - 1) |->
               IF seg[n].op = "skip_lines" THEN seg[n].arg
               ELSE IF IsTransfer(seg[n]) THEN 1 ELSE 0])

\* the number of consecutive blank rows immediately in front of row r
BlankRunBefore(png, r) ==
    r - 1 - Max({-1} \cup {q \in NonBlankRows(png) : q < r})

\* C14: vertical positioning.  In a label job, for every row r that dump_label
\* handed to the line codec, the counts of the skip-lines commands plus the
\* number of transfers emitted earlier within the same label equal r; each
\* skip-lines command is followed by a transfer of the label and its count is
\* the number of consecutive blank rows immediately in front of that row.
VerticalPosition ==
    kind = "label" =>
        /\ Cardinality(FeedsIn(pb.calls)) = Len(labels)
        /\ \A j \in 1..Len(labels) :
              LET seg == Segment(pb.calls, j)
                  tk  == SortedSeq(TransfersIn(seg))
              IN  /\ Len(tk) = Len(dumped[j])
                  /\ \A t \in 1..Len(tk) : RowAt(seg, tk[t]) = dumped[j][t]
                  /\ \A k \in 1..Len(seg) :
                        seg[k].op = "skip_lines" =>
                            LET after == {q \in TransfersIn(seg) : q > k}
                            IN  /\ after # {}
                                /\ Emits(seg[k])
                                /\ seg[k].arg >= 1
                                /\ seg[k].arg =
                                      BlankRunBefore(labels[j], RowAt(seg, Min(after)))

\* C14 witness: a bitmap with a blank row between two rows with set bits went
\* out as transfer, skip-lines 1, transfer.
VerticalPositionWitness ==
    /\ kind = "label"
    /\ \E j \in 1..Len(labels) :
          /\ dumped[j] = <<0, 2>>
          /\ LET seg == Segment(pb.calls, j)
             IN  \E k \in 1..Len(seg) :
                    /\ seg[k].op = "skip_lines" /\ seg[k].arg = 1
                    /\ RowAt(seg, k) = 1

\* the calls the step added to the builder, and the bitmaps it added
NewCalls == SubSeq(pb'.calls, Len(pb.calls) + 1, Len(pb'.calls))
NewLabels == SubSeq(labels', Len(labels) + 1, Len(labels'))

\* C15: trailing blank rows are dropped.  An add_label of a label job appends
\* one segment per bitmap, each closed by a short form feed; no skip-lines and
\* no transfer command of a segment stands for a row after the last non-blank
\* row of its bitmap; the command in front of the short form feed is never a
\* skip-lines command; a bitmap with no set bit appends the short form feed
\* only.
TrailingBlankDropped ==
    [][(kind = "label" /\ labels' # labels) =>
          /\ pb'.data = pb.data \o Flatten([k \in 1..Len(NewCalls) |-> NewCalls[k].out])
          /\ Cardinality(FeedsIn(NewCalls)) = Len(NewLabels)
          /\ NewLabels # <<>> => Last(NewCalls).op = "short_form_feed"
          /\ \A f \in FeedsIn(pb'.calls) :
                LET before == {k \in 1..(f - 1) : Emits(pb'.calls[k])}
                IN  pb'.calls[Max(before)].op # "skip_lines"
          /\ \A j \in 1..Len(NewLabels) :
                LET seg == Segment(NewCalls, j)
                    png == NewLabels[j]
                IN  IF NonBlankRows(png) = {}
                    THEN \A k \in 1..Len(seg) : ~Emits(seg[k])
                    ELSE \A k \in 1..Len(seg) :
                            /\ IsTransfer(seg[k]) =>
                                  RowAt(seg, k) <= Max(NonBlankRows(png))
                            /\ seg[k].op = "skip_lines" =>
                                  RowAt(seg, k) + seg[k].arg <= Max(NonBlankRows(png))]_vars

\* C15 witness: a label job received a bitmap with no set bit, which appended
\* 1B 47 only, then a bitmap with a set bit in its first row followed by a
\* blank row, which appended one transfer and 1B 47.
TrailingBlankWitness ==
    /\ kind = "label" /\ returned = <<>>
    /\ Len(labels) = 2
    /\ NonBlankRows(labels[1]) = {}
    /\ Len(labels[2]) = 2 /\ NonBlankRows(labels[2]) = {0}
    /\ pb.calls[Len(LabelPrologue) + 1].op = "short_form_feed"
    /\ Cardinality(TransfersIn(pb.calls)) = 1
    /\ Last(Emitted).op = "short_form_feed"
    /\ IsTransfer(Emitted[Len(Emitted) - 1])

\* the dot tab in force when the last transfer of pb.calls went out
LastTransferTab ==
    LastEmitted(Max(TransfersIn(pb.calls)), "set_dot_tab")

\* the step handed a non-blank row to the line codec right after a blank row,
\* its window starting at the dot tab that was in force at the blank row
SameTabAfterBlank ==
    /\ lines' # lines /\ lines # <<>>
    /\ NonZero(Last(lines)) = {}
    /\ NonZero(Last(lines')) # {}
    /\ StartByte(Last(lines')) = LastTransferTab

\* C16: the blank-line path leaves dot-tab untouched.  The line codec run on
\* an all-zero row makes no set-dot-tab call, appends no 1B 42 command and
\* leaves the recorded dot-tab unchanged; a following non-blank line whose
\* window starts at the dot-tab in force before appends no set-dot-tab command.
BlankKeepsDotTab ==
    [][/\ BlankLineStep =>
            /\ pb'.dot_tab = pb.dot_tab
            /\ \A k \in 1..Len(NewCalls) : NewCalls[k].op # "set_dot_tab"
       /\ SameTabAfterBlank =>
            \A k \in 1..Len(NewCalls) :
                NewCalls[k].op = "set_dot_tab" => ~Emits(NewCalls[k])]_vars

\* C16 witness: a row with its window at byte 1, a blank row, then a row with
\* its window at byte 1 again; the buffer holds 1B 42 01 once, in front of the
\* first transfer, and the recorded dot-tab is 1.
BlankKeepsDotTabWitness ==
    /\ Len(lines) = 3
    /\ NonZero(lines[1]) # {} /\ StartByte(lines[1]) = 1
    /\ NonZero(lines[2]) = {}
    /\ NonZero(lines[3]) # {} /\ StartByte(lines[3]) = 1
    /\ pb.dot_tab = 1
    /\ Cardinality({k \in 1..Len(pb.calls) :
                       pb.calls[k].op = "set_dot_tab" /\ pb.calls[k].arg = 1
                       /\ Emits(pb.calls[k])}) = 1
    /\ Last(pb.calls).op = "transfer_data" /\ Len(Last(pb.calls).val) = 1

\* the positions of the cut-tape commands in a list of calls
CutsIn(cs) == {k \in 1..Len(cs) : cs[k].op = "cut_tape"}

\* the calls of the j-th bitmap of a list of calls of a tape job
TapeSegment(cs, j) ==
    LET f == SortedSeq(CutsIn(cs))
    IN  SubSeq(cs, IF j = 1 THEN 1 ELSE f[j - 1] + 1, f[j] - 1)

\* C17: tape mode performs no blank elision and no compression.  An add_label
\* of a tape job appends, per bitmap, one raw transfer (0x16) per row, blank
\* rows included, each carrying the bytes of the window of its row, no
\* skip-lines and no compressed transfer, and then exactly one cut-tape
\* command (1B 45); get_data() appends nothing.
TapeVerbatim ==
    [][kind = "tape" =>
          /\ labels' # labels =>
                /\ pb'.data = pb.data \o
                       Flatten([k \in 1..Len(NewCalls) |-> NewCalls[k].out])
                /\ Cardinality(CutsIn(NewCalls)) = Len(NewLabels)
                /\ NewLabels # <<>> => Last(NewCalls).op = "cut_tape"
                /\ \A k \in 1..Len(NewCalls) :
                      /\ NewCalls[k].op \in {"set_dot_tab", "set_bytes_per_line",
                                             "transfer_data", "cut_tape"}
                      /\ NewCalls[k].op = "cut_tape" => NewCalls[k].out = <<27, 69>>
                /\ \A j \in 1..Len(NewLabels) :
                      LET seg == TapeSegment(NewCalls, j)
                          tk  == SortedSeq(TransfersIn(seg))
                          png == NewLabels[j]
                      IN  /\ Len(tk) = Len(png)
                          /\ \A r \in 1..Len(tk) :
                                seg[tk[r]].out =
                                    <<22>> \o (IF NonZero(png[r]) = {} THEN <<>>
                                               ELSE Window(png[r]))
          /\ returned' # returned => pb'.data = pb.data]_vars

\* C17 witness: a tape job received two bitmaps, one of them with a blank row
\* after a row with set bits, and get_data() was called: the buffer holds
\* three raw transfers and two cut-tape commands and ends with 1B 45.
TapeVerbatimWitness ==
    /\ kind = "tape" /\ FinishedOnce
    /\ Len(labels) = 2
    /\ \E j \in 1..2 : Len(labels[j]) = 2 /\ NonBlankRows(labels[j]) = {0}
    /\ Cardinality(TransfersIn(pb.calls)) = 3
    /\ Cardinality(CutsIn(pb.calls)) = 2
    /\ Last(Emitted).op = "cut_tape"

\* the bits of a byte list, most significant bit of each byte first
MsbFirst(w) ==
    [p \in 1..(8 * Len(w)) |-> (w[((p - 1) \div 8) + 1] \div (2 ^ (7 - ((p - 1) % 8)))) % 2]

\* a run list written out: length copies of color for each run, in order
Expand(runs) == Flatten([k \in 1..Len(runs) |-> Glyphs(runs[k][1], runs[k][2])])

\* the run list is a lossless, maximal encoding of the byte list w
LosslessMaximal(runs, w) ==
    /\ Expand(runs) = MsbFirst(w)
    /\ RunSum(runs) = 8 * Len(w)
    /\ \A k \in 1..(Len(runs) - 1) :
          runs[k][2] = runs[k + 1][2] => runs[k][1] = 128

\* C18: the run list is a lossless, maximal encoding of the active window.
\* With compression on, for every non-blank row handed to the line codec the
\* run list built from its window, and the run list of its transfer when the
\* compressed transfer was chosen, written out run by run is the window's bits
\* MSB-first, its lengths sum to 8 times the window byte count, and two
\* adjacent runs have the same color only when the earlier one has length 128.
RunListLossless ==
    compressed =>
        \A k \in 1..Len(lines) :
            NonZero(lines[k]) # {} =>
                LET w == Window(lines[k])
                    t == Transfers[k]
                IN  /\ LosslessMaximal(Runs(Pixels(w)), w)
                    /\ t.op = "transfer_compressed_data" => LosslessMaximal(t.val, w)

\* C18 witness: with compression on, the window 01 80 (runs of 7, 2 and 7
\* pixels, sent raw) and a window of MaxLong bytes FF (a run of 128 followed
\* by a run of the same color, sent compressed) went through the line codec.
RunListLosslessWitness ==
    /\ compressed
    /\ Len(lines) = 2
    /\ NonZero(lines[1]) # {} /\ NonZero(lines[2]) # {}
    /\ Window(lines[1]) = <<1, 128>>
    /\ Runs(Pixels(Window(lines[1]))) = <<<<7, 0>>, <<2, 1>>, <<7, 0>>>>
    /\ Len(Window(lines[2])) = MaxLong
    /\ Transfers[2].op = "transfer_compressed_data"
    /\ Transfers[2].val[1] = <<128, 1>> /\ Transfers[2].val[2][2] = 1

\* the positions of the transfers in pb.calls, in order
TransferCalls == SortedSeq(TransfersIn(pb.calls))

\* C19: the decoder accepts every encoder-produced stream and mirrors the
\* encoder state.  On the buffer returned by get_data() of a label or tape job
\* the decoder reaches the end of the buffer with neither an assertion failure
\* nor a read past the end, it goes through one transfer branch per transfer
\* the encoder emitted, and at each of them its dotTab and bytesPerLine are the
\* values the encoder had last set when it emitted that transfer.
DecoderMirrors ==
    returned # <<>> =>
        LET d == Decode(ReturnedBuffer)
        IN  /\ d.status = "done"
            /\ d.i = Len(ReturnedBuffer)
            /\ Len(d.at) = Len(TransferCalls)
            /\ \A t \in 1..Len(TransferCalls) :
                  d.at[t] = <<LastEmitted(TransferCalls[t], "set_dot_tab"),
                              LastEmitted(TransferCalls[t], "set_bytes_per_line")>>
            /\ d.dot_tab = pb.dot_tab
            /\ d.bytes_per_line = pb.bytes_per_line

\* C19 witness: the returned buffer of a label job holds a compressed transfer
\* at dot-tab 0 and a raw transfer at dot-tab 1, and the decoder came through
\* both.
DecoderMirrorsWitness ==
    /\ kind = "label" /\ FinishedOnce
    /\ Len(Transfers) = 2
    /\ Transfers[1].op = "transfer_compressed_data"
    /\ Transfers[2].op = "transfer_data"
    /\ Decode(ReturnedBuffer).at = <<<<0, 2>>, <<1, 1>>>>
    /\ Decode(ReturnedBuffer).status = "done"

\* C20: label-mode add_label never violates the skip-lines domain.  Every
\* add_label of a label job completes without an exception, each skip-lines
\* command it appends has a count in 1..255, and the label ends with a short
\* form feed.
SkipInDomain ==
    [][(kind = "label" /\ labels' # labels) =>
          /\ ~pb'.err
          /\ \A k \in 1..Len(NewCalls) :
                NewCalls[k].op = "skip_lines" => NewCalls[k].arg \in 1..255
          /\ pb'.calls # <<>> /\ Last(pb'.calls).op = "short_form_feed"]_vars

\* C21: the recorded encoder state matches the emitted stream, also after a
\* rejected call.  After any sequence of builder calls, failed ones included,
\* the recorded dot-tab (bytes-per-line) is the argument of the most recent
\* set-dot-tab (set-bytes-per-line) command in the buffer, None when the
\* buffer holds none; and the buffer is the bytes of the commands that
\* succeeded.
RecordedMatchesStream ==
    /\ pb.data = Flatten([k \in 1..Len(pb.calls) |-> pb.calls[k].out])
    /\ pb.dot_tab = LastEmitted(Len(pb.calls) + 1, "set_dot_tab")
    /\ pb.bytes_per_line = LastEmitted(Len(pb.calls) + 1, "set_bytes_per_line")

====
